---- MODULE Spec2Model ----
(***************************************************************************)
(* Model of abastecimentos_app.py: the fuel-name normaliser, the SQLite    *)
(* store (tables cadastros and abastecimentos), the Streamlit pages that   *)
(* write to it, and the SMTP sender.                                       *)
(*                                                                         *)
(* Text is modelled as a tuple of one-character strings, so that strip,    *)
(* split, capitalize and join are computed character by character.         *)
(* Python values are tagged records: None, str, int, float NaN, and an     *)
(* object whose str() raises.                                              *)
(***************************************************************************)
EXTENDS Integers, Sequences, FiniteSets, TLC

VARIABLES
    val,            \* normalize_combustivel: the argument of the call
    res,            \* normalize_combustivel: the value returned (Pendente before the call)
    cadastros,      \* rows of table cadastros: [id, Placa, dados]
    seq_cad,        \* sqlite_sequence of cadastros (AUTOINCREMENT: largest id ever used)
    abastecimentos, \* rows of table abastecimentos: [id, Placa, Combustivel]
    seq_ab,         \* sqlite_sequence of abastecimentos
    pc,             \* position of the script rerun (main -> page -> block)
    entrada,        \* widget values read by the block that ran last
    msgs,           \* st.error / st.warning / st.success / st.info shown in this rerun
    ultimo,         \* history: the pairs <<Placa, dados>> of the last successful write of each Placa
    args,           \* send_email_smtp: arguments and behaviour of the relay in this call
    ret,            \* send_email_smtp: outcome of the call (Pendente before the call)
    msg,            \* send_email_smtp: the EmailMessage built by the call (Pendente if none)
    smtp,           \* send_email_smtp: the calls made on the smtplib.SMTP object, in order
    pdf,            \* pagina_email: outcome of generate_request_pdf in this rerun
    excecao,        \* the exception that left the page function in this rerun (None if none)
    abertas,        \* connections opened in this rerun and still open when their block ended
    schema          \* the tables of the database file: name and columns

vars == <<val, res, cadastros, seq_cad, abastecimentos, seq_ab, pc, entrada,
          msgs, ultimo, args, ret, msg, smtp, pdf, excecao, abertas, schema>>

normVars  == <<val, res>>
storeVars == <<cadastros, seq_cad, abastecimentos, seq_ab, pc, entrada, msgs,
               ultimo, excecao, abertas, schema>>
smtpVars  == <<args, ret, msg, smtp, pdf>>

-----------------------------------------------------------------------------
(* Bounds of the model *)

MaxLen == 3         \* longest text enumerated over Alfabeto
MaxInt == 12        \* largest integer passed to normalize_combustivel
MaxCad == 3         \* largest id handed out in cadastros
MaxAb == 1          \* largest id handed out in abastecimentos

-----------------------------------------------------------------------------
(* Python values and text *)

None == [t |-> "None"]
NaN == [t |-> "nan"]
Obj == [t |-> "obj"]
Str(s) == [t |-> "str", v |-> s]
(* a float of one decimal place, kept in tenths: FloatV(125) is 12.5 *)
FloatV(d) == [t |-> "float", v |-> d]

IntV(n) == [t |-> "int", v |-> n]
Bytes(b) == [t |-> "bytes", v |-> b]
Pendente == [t |-> "pendente"]

Minusculas == <<"a","b","c","d","e","f","g","h","i","j","k","l","m",
                "n","o","p","q","r","s","t","u","v","w","x","y","z">>
Maiusculas == <<"A","B","C","D","E","F","G","H","I","J","K","L","M",
                "N","O","P","Q","R","S","T","U","V","W","X","Y","Z">>
Digitos == <<"0","1","2","3","4","5","6","7","8","9">>

isspace(c) == c \in {" ", "\t", "\n"}

upper(c) ==
    IF \E i \in 1..26 : Minusculas[i] = c
    THEN Maiusculas[CHOOSE i \in 1..26 : Minusculas[i] = c]
    ELSE c

lower(c) ==
    IF \E i \in 1..26 : Maiusculas[i] = c
    THEN Minusculas[CHOOSE i \in 1..26 : Maiusculas[i] = c]
    ELSE c

RECURSIVE lstrip(_)
lstrip(s) ==
    IF s # <<>> /\ isspace(Head(s)) THEN lstrip(Tail(s)) ELSE s

RECURSIVE rstrip(_)
rstrip(s) ==
    IF s # <<>> /\ isspace(s[Len(s)]) THEN rstrip(SubSeq(s, 1, Len(s) - 1)) ELSE s

strip(s) == rstrip(lstrip(s))

(* as split, but cutting at every single whitespace character, like split(' ') *)
RECURSIVE split_cada_espaco(_)
split_cada_espaco(s) ==
    IF \E i \in 1..Len(s) : isspace(s[i])
    THEN LET n == CHOOSE i \in 1..Len(s) :
                      /\ isspace(s[i])
                      /\ \A j \in 1..(i - 1) : ~isspace(s[j])
         IN <<SubSeq(s, 1, n - 1)>> \o split_cada_espaco(SubSeq(s, n + 1, Len(s)))
    ELSE <<s>>

(* str.split() without argument: words separated by runs of whitespace *)
RECURSIVE split(_)
split(s) ==
    LET t == lstrip(s) IN
    IF t = <<>> THEN <<>>
    ELSE LET n == IF \E i \in 1..Len(t) : isspace(t[i])
                  THEN (CHOOSE i \in 1..Len(t) :
                            /\ isspace(t[i])
                            /\ \A j \in 1..(i - 1) : ~isspace(t[j])) - 1
                  ELSE Len(t)
         IN <<SubSeq(t, 1, n)>> \o split(SubSeq(t, n + 1, Len(t)))

(* as capitalize, but leaving the letters after the first as they are *)
capitalize_so_primeira(w) ==
    IF w = <<>> THEN w
    ELSE <<upper(w[1])>> \o Tail(w)

capitalize(w) ==
    IF w = <<>> THEN w
    ELSE <<upper(w[1])>> \o [i \in 1..(Len(w) - 1) |-> lower(w[i + 1])]

RECURSIVE join(_, _)
join(sep, ws) ==
    IF ws = <<>> THEN <<>>
    ELSE IF Len(ws) = 1 THEN ws[1]
    ELSE ws[1] \o sep \o join(sep, Tail(ws))

RECURSIVE digits(_)
digits(n) ==
    IF n < 10 THEN <<Digitos[n + 1]>> ELSE digits(n \div 10) \o <<Digitos[(n % 10) + 1]>>

(* str(val) raises for an object whose __str__ throws; otherwise it is the text *)
str_raises(v) == v.t \notin {"str", "int", "nan", "float", "None"}

str(v) ==
    CASE v.t = "str" -> v.v
      [] v.t = "int" -> IF v.v < 0 THEN <<"-">> \o digits(0 - v.v) ELSE digits(v.v)
      [] v.t = "nan" -> <<"n","a","n">>
      [] v.t = "float" -> digits(v.v \div 10) \o <<".">> \o digits(v.v % 10)
      [] v.t = "None" -> <<"N","o","n","e">>

normalize_combustivel_none_vazio(v) ==
    IF v = None THEN Str(<<>>)
    ELSE IF str_raises(v) THEN v
    ELSE LET s == strip(str(v))
             ws == split(s)
         IN Str(join(<<" ">>, [i \in 1..Len(ws) |-> capitalize(ws[i])]))

normalize_combustivel(v) ==
    IF v = None THEN v
    ELSE IF str_raises(v) THEN v
    ELSE LET s == strip(str(v))
             ws == split(s)
         IN Str(join(<<" ">>, [i \in 1..Len(ws) |-> capitalize(ws[i])]))

-----------------------------------------------------------------------------
(* Inputs of normalize_combustivel *)

Alfabeto == {"a", "B", " "}

RECURSIVE Textos(_)
Textos(n) ==
    IF n = 0 THEN {<<>>}
    ELSE LET T == Textos(n - 1)
         IN T \cup {Append(s, c) : s \in {x \in T : Len(x) = n - 1}, c \in Alfabeto}

Amostras ==
    { <<"e","t","a","n","o","l">>,
      <<"E","T","A","N","O","L">>,
      <<" ","E","t","a","n","o","l"," ">>,
      <<"g","a","s","o","l","i","n","a">>,
      <<"g","a","s","o","l","i","n","a"," ","c","o","m","u","m">>,
      <<"d","i","e","s","e","l"," "," ","s","1","0">>,
      <<"D","I","E","S","E","L"," ","S","5","0","0">>,
      <<"a","r","l","a">>,
      <<"A","r","l","a"," ","3","2">>,
      <<"G","N","V">>,
      <<"g","n","v"," "," ","a","d","i","t","i","v","a","d","o">>,
      <<"\t","g","n","v">> }

Entradas ==
    {Str(s) : s \in Textos(MaxLen) \cup Amostras}
        \cup {IntV(n) : n \in (0 - 2)..MaxInt} \cup {None, NaN, Obj}

-----------------------------------------------------------------------------
(* Initial values of the three groups of variables *)

NormInit0 == val = None /\ res = Pendente
SmtpInit0 ==
    /\ args = None
    /\ ret = Pendente
    /\ msg = Pendente
    /\ smtp = <<>>
    /\ pdf = Pendente

-----------------------------------------------------------------------------
(* normalize_combustivel applied to every input of Entradas *)

Normalizar ==
    /\ res = Pendente
    /\ res' = normalize_combustivel(val)
    /\ UNCHANGED <<val, storeVars, smtpVars>>

NovaEntrada ==
    /\ res # Pendente
    /\ val' \in Entradas
    /\ res' = Pendente
    /\ UNCHANGED <<storeVars, smtpVars>>

-----------------------------------------------------------------------------
(* The SQLite store *)

ColunasCadastros ==
    <<"id", "Placa", "Condutor", "Unidade", "Setor", "Categoria", "Marca", "Modelo">>

ColunasAbastecimentos ==
    <<"id", "Placa", "valor_total", "total_litros", "data", "Referente", "Odometro",
      "Posto", "Combustivel", "Condutor", "Unidade", "Setor">>

ColunasPostosEmails == <<"id", "posto", "email">>

TableExists == [t |-> "exc", v |-> "sqlite3.OperationalError: table already exists"]

(* CREATE TABLE without IF NOT EXISTS: an existing table is an error *)
CreateTable(db, nome, colunas) ==
    IF db.exc # None THEN db
    ELSE IF \E t \in db.schema : t.nome = nome
    THEN [schema |-> db.schema, exc |-> TableExists]
    ELSE [schema |-> db.schema \cup {[nome |-> nome, colunas |-> colunas]},
          exc |-> None]

(* CREATE TABLE IF NOT EXISTS: an existing table of that name is left as it
   is, whatever its columns *)
CreateTableIfNotExists(db, nome, colunas) ==
    IF db.exc # None THEN db
    ELSE IF \E t \in db.schema : t.nome = nome
    THEN db
    ELSE [schema |-> db.schema \cup {[nome |-> nome, colunas |-> colunas]},
          exc |-> None]

init_db(db) ==
    CreateTableIfNotExists(
        CreateTableIfNotExists(db, "cadastros", ColunasCadastros),
        "abastecimentos", ColunasAbastecimentos)

init_postos_emails(db) ==
    CreateTableIfNotExists(db, "postos_emails", ColunasPostosEmails)

(* A DataFrame cell bound as an SQL parameter: NaN is stored as NULL (None) *)
ToSql(c) == IF c = NaN THEN None ELSE c

notna(c) == c # NaN /\ c # None

(* INSERT OR IGNORE: a row whose Placa is already there is kept as it is *)
InsertOrIgnore(tab, seq, placa, dados) ==
    IF placa # None /\ \E r \in tab : r.Placa = placa
    THEN [rows |-> tab, seq |-> seq]
    ELSE [rows |-> tab \cup {[id |-> seq + 1, Placa |-> placa, dados |-> dados]},
          seq  |-> seq + 1]

(* INSERT OR REPLACE INTO cadastros: Placa is UNIQUE (NULLs never conflict),
   id is AUTOINCREMENT, so the row in conflict is deleted and the new row
   takes the next id *)
InsertOrReplace(tab, seq, placa, dados) ==
    [rows |-> {r \in tab : placa = None \/ r.Placa # placa}
                  \cup {[id |-> seq + 1, Placa |-> placa, dados |-> dados]},
     seq  |-> seq + 1]

(* INSERT INTO abastecimentos *)
Insert(tab, seq, placa, combustivel) ==
    [rows |-> tab \cup {[id |-> seq + 1, Placa |-> placa, Combustivel |-> combustivel]},
     seq  |-> seq + 1]

(* Messages shown by the pages *)
ErroUploadCad    == "Erro ao fazer upload de cadastros"
ErroUploadAb     == "Erro ao fazer upload de abastecimentos"
ErroColunas      == "Planilha invalida! Deve conter as colunas"
ErroSemPlaca     == "Existem registros sem Placa"
AvisoLinha       == "Nao foi possivel inserir Placa"
OkUploadCad      == "Cadastros importados com sucesso!"
OkUploadAb       == "Abastecimentos importados com sucesso!"
ErroPlaca        == "O campo Placa e obrigatorio!"
OkCadastro       == "Cadastro salvo com sucesso!"
OkApagado        == "Ultimo cadastro apagado com sucesso!"
InfoNadaApagar   == "Nenhum cadastro para apagar."
OkAbastecimento  == "Abastecimento registrado com sucesso!"

(* The loop of upload_cadastros over df.iterrows(): the execute of row number
   falha raises, is caught, and the loop goes on with the next row *)
RECURSIVE ImportaLinhas(_, _, _, _, _)
ImportaLinhas(tab, seq, linhas, falha, i) ==
    IF i > Len(linhas) THEN [rows |-> tab, seq |-> seq, msgs |-> {}]
    ELSE IF i = falha
         THEN LET r == ImportaLinhas(tab, seq, linhas, falha, i + 1)
              IN [r EXCEPT !.msgs = @ \cup {AvisoLinha}]
         ELSE LET w == InsertOrReplace(tab, seq, ToSql(linhas[i].Placa), linhas[i].dados)
              IN ImportaLinhas(w.rows, w.seq, linhas, falha, i + 1)

(* as upload_cadastros, but importing into an emptied table *)
upload_cadastros_substitui(tab, seq, file) ==
    IF file.tipo = "ilegivel"
    THEN [rows |-> tab, seq |-> seq, msgs |-> {ErroUploadCad},
          exc |-> None, aberta |-> FALSE]
    ELSE IF file.tipo = "sem_colunas"
    THEN [rows |-> tab, seq |-> seq, msgs |-> {ErroColunas},
          exc |-> None, aberta |-> FALSE]
    ELSE IF \E i \in 1..Len(file.linhas) : ~notna(file.linhas[i].Placa)
    THEN [rows |-> tab, seq |-> seq, msgs |-> {ErroSemPlaca},
          exc |-> None, aberta |-> FALSE]
    ELSE LET r == ImportaLinhas({}, seq, file.linhas, file.falha, 1)
         IN IF ~file.commit
            THEN [rows |-> tab, seq |-> seq, msgs |-> r.msgs \cup {ErroUploadCad},
                  exc |-> None, aberta |-> TRUE]
            ELSE [rows |-> r.rows, seq |-> r.seq, msgs |-> r.msgs \cup {OkUploadCad},
                  exc |-> None, aberta |-> FALSE]

(* as upload_cadastros, but skipping the rows without Placa instead of
   rejecting the sheet *)
upload_cadastros_pula_sem_placa(tab, seq, file) ==
    IF file.tipo = "ilegivel"
    THEN [rows |-> tab, seq |-> seq, msgs |-> {ErroUploadCad},
          exc |-> None, aberta |-> FALSE]
    ELSE IF file.tipo = "sem_colunas"
    THEN [rows |-> tab, seq |-> seq, msgs |-> {ErroColunas},
          exc |-> None, aberta |-> FALSE]
    ELSE LET com == SelectSeq(file.linhas, LAMBDA l : notna(l.Placa))
             r == ImportaLinhas(tab, seq, com, 0, 1)
         IN IF ~file.commit
            THEN [rows |-> tab, seq |-> seq, msgs |-> r.msgs \cup {ErroUploadCad},
                  exc |-> None, aberta |-> TRUE]
            ELSE IF Len(com) < Len(file.linhas)
            THEN [rows |-> r.rows, seq |-> r.seq, msgs |-> r.msgs \cup {ErroSemPlaca},
                  exc |-> None, aberta |-> FALSE]
            ELSE [rows |-> r.rows, seq |-> r.seq, msgs |-> r.msgs \cup {OkUploadCad},
                  exc |-> None, aberta |-> FALSE]

upload_cadastros(tab, seq, file) ==
    IF file.tipo = "ilegivel"
    THEN [rows |-> tab, seq |-> seq, msgs |-> {ErroUploadCad},
          exc |-> None, aberta |-> FALSE]
    ELSE IF file.tipo = "sem_colunas"
    THEN [rows |-> tab, seq |-> seq, msgs |-> {ErroColunas},
          exc |-> None, aberta |-> FALSE]
    ELSE IF \E i \in 1..Len(file.linhas) : ~notna(file.linhas[i].Placa)
    THEN [rows |-> tab, seq |-> seq, msgs |-> {ErroSemPlaca},
          exc |-> None, aberta |-> FALSE]
    ELSE LET r == ImportaLinhas(tab, seq, file.linhas, file.falha, 1)
         IN IF ~file.commit
            THEN [rows |-> tab, seq |-> seq, msgs |-> r.msgs \cup {ErroUploadCad},
                  exc |-> None, aberta |-> TRUE]
            ELSE [rows |-> r.rows, seq |-> r.seq, msgs |-> r.msgs \cup {OkUploadCad},
                  exc |-> None, aberta |-> FALSE]

(* the rows of the frame appended one after the other, Combustivel already
   normalised by df['Combustivel'].apply(normalize_combustivel) *)
RECURSIVE InsereLinhas(_, _, _, _)
InsereLinhas(tab, seq, linhas, i) ==
    IF i > Len(linhas) THEN [rows |-> tab, seq |-> seq]
    ELSE LET w == Insert(tab, seq, ToSql(linhas[i].Placa),
                         ToSql(normalize_combustivel(linhas[i].Combustivel)))
         IN InsereLinhas(w.rows, w.seq, linhas, i + 1)

(* as to_sql, but with if_exists="replace": the table is emptied first *)
to_sql_replace(tab, seq, linhas) ==
    InsereLinhas({}, seq, linhas, 1)

(* df.to_sql("abastecimentos", conn, if_exists="append", index=False) *)
to_sql(tab, seq, linhas) ==
    InsereLinhas(tab, seq, linhas, 1)

(* as upload_abastecimentos, but without the check of the Placa column *)
upload_abastecimentos_sem_checar(tab, seq, file) ==
    IF file.tipo = "ilegivel"
    THEN [rows |-> tab, seq |-> seq, msgs |-> {ErroUploadAb},
          exc |-> None, aberta |-> FALSE]
    ELSE IF file.tipo = "sem_colunas"
    THEN [rows |-> tab, seq |-> seq, msgs |-> {ErroColunas},
          exc |-> None, aberta |-> FALSE]
    ELSE IF file.falha > 0
    THEN [rows |-> tab, seq |-> seq, msgs |-> {ErroUploadAb},
          exc |-> None, aberta |-> TRUE]
    ELSE LET r == to_sql(tab, seq, file.linhas)
         IN [rows |-> r.rows, seq |-> r.seq, msgs |-> {OkUploadAb},
             exc |-> None, aberta |-> FALSE]

upload_abastecimentos(tab, seq, file) ==
    IF file.tipo = "ilegivel"
    THEN [rows |-> tab, seq |-> seq, msgs |-> {ErroUploadAb},
          exc |-> None, aberta |-> FALSE]
    ELSE IF file.tipo = "sem_colunas"
    THEN [rows |-> tab, seq |-> seq, msgs |-> {ErroColunas},
          exc |-> None, aberta |-> FALSE]
    ELSE IF \E i \in 1..Len(file.linhas) : ~notna(file.linhas[i].Placa)
    THEN [rows |-> tab, seq |-> seq, msgs |-> {ErroSemPlaca},
          exc |-> None, aberta |-> FALSE]
    ELSE IF file.falha > 0
    THEN [rows |-> tab, seq |-> seq, msgs |-> {ErroUploadAb},
          exc |-> None, aberta |-> TRUE]
    ELSE LET r == to_sql(tab, seq, file.linhas)
         IN [rows |-> r.rows, seq |-> r.seq, msgs |-> {OkUploadAb},
             exc |-> None, aberta |-> FALSE]

-----------------------------------------------------------------------------
(* generate_request_pdf and send_email_smtp *)

(* generate_request_pdf raises RuntimeError when reportlab cannot be imported,
   and returns the bytes of the document otherwise *)
FalhasPdf == {"nenhuma", "reportlab", "build"}

(* payload.get(k, d) *)
get(payload, k, d) == IF k \in DOMAIN payload THEN payload[k] ELSE d

(* str.replace("\n", "<br/>") *)
RECURSIVE replace_nl(_)
replace_nl(s) ==
    IF s = <<>> THEN <<>>
    ELSE (IF Head(s) = "\n" THEN <<"<","b","r","/",">">> ELSE <<Head(s)>>)
             \o replace_nl(Tail(s))

(* the nine rows of the Table: label, value *)
meta(payload) ==
    << <<"Data:", get(payload, "data", Str(<<>>))>>,
       <<"Posto destino:", get(payload, "posto", Str(<<>>))>>,
       <<"Placa:", get(payload, "placa", Str(<<>>))>>,
       <<"Motorista:", get(payload, "motorista", Str(<<>>))>>,
       <<"Supervisor:", get(payload, "supervisor", Str(<<>>))>>,
       <<"Setor:", get(payload, "setor", Str(<<>>))>>,
       <<"Quilometragem atual:", Str(str(get(payload, "km_atual", Str(<<>>))))>>,
       <<"Quantidade (L):", Str(str(get(payload, "litros", Str(<<>>))))>>,
       <<"Combustivel:", get(payload, "combustivel", Str(<<>>))>> >>

(* the document: the story that doc.build renders, kept as its content *)
generate_request_pdf(payload, falha) ==
    IF falha = "reportlab"
    THEN [tipo |-> "raise", exc |-> "reportlab nao disponivel"]
    ELSE IF falha = "build"
    THEN [tipo |-> "raise", exc |-> "build"]
    ELSE [tipo |-> "return",
          bytes |-> Bytes([meta |-> meta(payload),
                           justificativa |->
                               replace_nl(get(payload, "justificativa", Str(<<>>)).v),
                           solicitante |-> get(payload, "solicitante", Str(<<>>))])]

truthy(x) == x # None /\ x # Str(<<>>)

(* The statements inside the try of send_email_smtp, in order; a.falha names
   the step that raises if it is reached *)
smtp_try(a) ==
    LET cfg      == a.smtp_config
        user     == IF cfg # None THEN cfg.user ELSE None
        password == IF cfg # None THEN cfg.password ELSE None
        use_tls  == IF cfg # None THEN cfg.use_tls ELSE TRUE
    IN  IF a.falha = "import"
        THEN [tipo |-> "raise", exc |-> "ImportError"]
        ELSE IF a.attachment_bytes # None /\ a.attachment_name = None
        THEN [tipo |-> "raise", exc |-> "AttributeError"]
        ELSE IF a.falha = "connect"
        THEN [tipo |-> "raise", exc |-> "connect"]
        ELSE IF use_tls /\ a.falha = "starttls"
        THEN [tipo |-> "raise", exc |-> "starttls"]
        ELSE IF truthy(user) /\ truthy(password) /\ a.falha = "login"
        THEN [tipo |-> "raise", exc |-> "login"]
        ELSE IF a.falha = "send"
        THEN [tipo |-> "raise", exc |-> "send"]
        ELSE IF a.falha = "quit"
        THEN [tipo |-> "raise", exc |-> "quit"]
        ELSE [tipo |-> "return", ok |-> TRUE, err |-> ""]

(* as send_email_smtp, but without the except clause *)
send_email_smtp_sem_except(a) ==
    smtp_try(a)

(* try: ... return True, ''   except Exception as e: return False, str(e) *)
send_email_smtp(a) ==
    LET r == smtp_try(a)
    IN IF r.tipo = "raise"
       THEN [tipo |-> "return", ok |-> FALSE, err |-> r.exc]
       ELSE r

Falhas == {"nenhuma", "import", "connect", "starttls", "login", "send", "quit"}

endswith(s, suf) ==
    /\ Len(s) >= Len(suf)
    /\ SubSeq(s, Len(s) - Len(suf) + 1, Len(s)) = suf

MimeXlsx == "vnd.openxmlformats-officedocument.spreadsheetml.sheet"

(* the part added by msg.add_attachment: the type is inferred from the
   extension of attachment_name.lower() *)
attachment(a) ==
    IF a.attachment_bytes = None THEN None
    ELSE [maintype |-> "application",
          subtype  |-> IF endswith([i \in 1..Len(a.attachment_name.v) |->
                                        lower(a.attachment_name.v[i])],
                                   <<".","x","l","s","x">>)
                       THEN MimeXlsx
                       ELSE "octet-stream",
          filename |-> a.attachment_name]

(* the EmailMessage as it stands when the relay is contacted; Pendente when
   the call raised before the message was complete *)
build_msg(a) ==
    IF a.falha = "import" \/ (a.attachment_bytes # None /\ a.attachment_name = None)
    THEN Pendente
    ELSE [To |-> a.to_address, anexo |-> attachment(a)]

(* the calls the try block means to make on the SMTP object, in order *)
smtp_plano(a) ==
    LET cfg      == a.smtp_config
        user     == IF cfg # None THEN cfg.user ELSE None
        password == IF cfg # None THEN cfg.password ELSE None
        use_tls  == IF cfg # None THEN cfg.use_tls ELSE TRUE
    IN  <<"connect">>
            \o (IF use_tls THEN <<"starttls">> ELSE <<>>)
            \o (IF truthy(user) /\ truthy(password) THEN <<"login">> ELSE <<>>)
            \o <<"send", "quit">>

(* as smtp_calls, but sending the message a second time when the call that
   raised was send_message *)
smtp_calls_retenta(a) ==
    IF build_msg(a) = Pendente THEN <<>>
    ELSE LET plano == smtp_plano(a)
         IN IF \E i \in 1..Len(plano) : plano[i] = a.falha
            THEN LET n == CHOOSE i \in 1..Len(plano) : plano[i] = a.falha
                 IN IF a.falha = "send"
                    THEN SubSeq(plano, 1, n) \o <<"send">>
                    ELSE SubSeq(plano, 1, n)
            ELSE plano

(* the calls made on the SMTP object: those of the plan up to and including
   the one that raises, which ends the try block *)
smtp_calls(a) ==
    IF build_msg(a) = Pendente THEN <<>>
    ELSE LET plano == smtp_plano(a)
         IN IF \E i \in 1..Len(plano) : plano[i] = a.falha
            THEN SubSeq(plano, 1, CHOOSE i \in 1..Len(plano) : plano[i] = a.falha)
            ELSE plano

-----------------------------------------------------------------------------
(* Values typed or chosen in the widgets *)

PlacaA == <<"A">>
PlacaB == <<"B">>

(* dados: <<Categoria, Marca, Modelo, Condutor, Unidade, Setor>> *)
D1 == << <<"c">>, <<"m">>, <<"o">>, <<"J">>, <<"u">>, <<"s">> >>
D2 == << <<"c">>, <<"m">>, <<"o">>, <<"K">>, <<"u">>, <<"s">> >>
D2r == << <<"c">>, <<"m">>, <<"o">>, <<"K", " ">>, <<"u">>, <<"s">> >>

LinhaCad(p, d) == [Placa |-> p, dados |-> d]
LinhaAb(p, c) == [Placa |-> p, Combustivel |-> c]
(* falha: the number of the row whose execute raises (upload_cadastros), or
   > 0 when to_sql raises (upload_abastecimentos); commit: conn.commit() of
   upload_cadastros succeeds *)
Planilha(l, f) == [tipo |-> "ok", linhas |-> l, falha |-> f, commit |-> TRUE]
PlanilhaSemCommit(l) == [tipo |-> "ok", linhas |-> l, falha |-> 0, commit |-> FALSE]
Ilegivel == [tipo |-> "ilegivel", linhas |-> <<>>, falha |-> 0, commit |-> TRUE]
SemColunas == [tipo |-> "sem_colunas", linhas |-> <<>>, falha |-> 0, commit |-> TRUE]

PlanilhasCad ==
    { Ilegivel, SemColunas,
      Planilha(<<>>, 0),
      Planilha(<<LinhaCad(Str(PlacaA), D1)>>, 0),
      Planilha(<<LinhaCad(Str(PlacaB), D2)>>, 0),
      Planilha(<<LinhaCad(Str(PlacaA), D1), LinhaCad(Str(PlacaB), D1)>>, 0),
      Planilha(<<LinhaCad(Str(PlacaA), D1), LinhaCad(Str(PlacaA), D2)>>, 0),
      Planilha(<<LinhaCad(Str(PlacaA), D2), LinhaCad(Str(PlacaB), D1)>>, 1),
      PlanilhaSemCommit(<<LinhaCad(Str(PlacaB), D2)>>),
      Planilha(<<LinhaCad(NaN, D1)>>, 0),
      Planilha(<<LinhaCad(Str(PlacaA), D1), LinhaCad(NaN, D2)>>, 0) }

Gasolina_ == Str(<<"g","a","s","o","l","i","n","a"," ">>)

PlanilhasAb ==
    { Ilegivel, SemColunas,
      Planilha(<<>>, 0),
      Planilha(<<LinhaAb(Str(PlacaA), Gasolina_)>>, 0),
      Planilha(<<LinhaAb(Str(PlacaA), Gasolina_)>>, 1),
      Planilha(<<LinhaAb(Str(PlacaB), NaN)>>, 0),
      Planilha(<<LinhaAb(Str(PlacaA), Gasolina_), LinhaAb(Str(PlacaB), Gasolina_)>>, 0),
      Planilha(<<LinhaAb(NaN, Gasolina_)>>, 0),
      Planilha(<<LinhaAb(Str(PlacaA), Gasolina_), LinhaAb(NaN, NaN)>>, 0) }

(* falha: the statement of the block that raises sqlite3.Error, if any *)
FalhasSql == {"nenhuma", "execute", "commit"}

FormsCad ==
    {[submitted |-> FALSE, placa |-> <<>>, dados |-> D1, falha |-> "nenhuma"]}
        \cup {[submitted |-> TRUE, placa |-> p, dados |-> D1, falha |-> "nenhuma"] :
                 p \in {<<>>, <<" ">>, <<" ", "A">>, PlacaB}}
        \cup {[submitted |-> TRUE, placa |-> <<" ", "A">>, dados |-> D2r,
               falha |-> "nenhuma"]}
        \cup {[submitted |-> TRUE, placa |-> PlacaB, dados |-> D1, falha |-> "commit"]}

Cliques ==
    { [clicked |-> FALSE, falha |-> "nenhuma"],
      [clicked |-> TRUE, falha |-> "nenhuma"],
      [clicked |-> TRUE, falha |-> "execute"] }

(* options of the selectbox "Combustível" *)
Combustiveis ==
    { Str(<<"G","a","s","o","l","i","n","a">>),
      Str(<<"E","t","a","n","o","l">>),
      Str(<<"D","i","e","s","e","l"," ","S","1","0">>),
      Str(<<"D","i","e","s","e","l"," ","S","5","0","0">>),
      Str(<<"G","N","V">>) }

(* the options the forms of the model pick *)
Escolhidos ==
    { Str(<<"G","a","s","o","l","i","n","a">>),
      Str(<<"G","N","V">>) }

(* placas_opt: the distinct non-null Placa of cadastros *)
placas_opt(tab) == {r.Placa : r \in {x \in tab : x.Placa # None}}

FormsAb(tab) ==
    {[submitted |-> FALSE, placa |-> None, combustivel |-> Str(<<"G","N","V">>),
      falha |-> "nenhuma"]}
        \cup {[submitted |-> TRUE, placa |-> p, combustivel |-> c, falha |-> "nenhuma"] :
                 p \in (IF placas_opt(tab) = {} THEN {None} ELSE placas_opt(tab)),
                 c \in Escolhidos \cap Combustiveis}
        \cup {[submitted |-> TRUE, placa |-> p, combustivel |-> Str(<<"G","N","V">>),
               falha |-> "execute"] : p \in placas_opt(tab)}

FormEmailOk ==
    [enviar |-> TRUE, placa |-> PlacaA, supervisor |-> <<"s">>, setor |-> <<"t">>,
     litros |-> 1, email_posto |-> <<"e">>]

FormsEmail ==
    { [FormEmailOk EXCEPT !.enviar = FALSE],
      FormEmailOk,
      [FormEmailOk EXCEPT !.placa = <<" ">>],
      [FormEmailOk EXCEPT !.supervisor = <<>>],
      [FormEmailOk EXCEPT !.setor = <<" ">>],
      [FormEmailOk EXCEPT !.litros = 0],
      [FormEmailOk EXCEPT !.email_posto = <<" ">>],
      [FormEmailOk EXCEPT !.placa = <<>>, !.litros = 0] }

-----------------------------------------------------------------------------
(* The blocks of the pages *)

SqlError == [t |-> "exc", v |-> "sqlite3.OperationalError"]

(* as the form of pagina_cadastros, but testing placa instead of placa.strip() *)
salvar_cadastro_sem_strip(tab, seq, f) ==
    IF ~f.submitted
    THEN [rows |-> tab, seq |-> seq, msgs |-> {}, exc |-> None, aberta |-> FALSE]
    ELSE IF f.placa = <<>>
    THEN [rows |-> tab, seq |-> seq, msgs |-> {ErroPlaca}, exc |-> None, aberta |-> FALSE]
    ELSE IF f.falha # "nenhuma"
    THEN [rows |-> tab, seq |-> seq, msgs |-> {}, exc |-> SqlError, aberta |-> TRUE]
    ELSE LET w == InsertOrReplace(tab, seq, Str(strip(f.placa)),
                                  [i \in 1..Len(f.dados) |-> strip(f.dados[i])])
         IN [rows |-> w.rows, seq |-> w.seq, msgs |-> {OkCadastro},
             exc |-> None, aberta |-> FALSE]

(* pagina_cadastros, form "form_cadastro": the statements are not inside a
   try, so an execute or commit that raises leaves the page function with the
   connection open and the transaction not committed *)
salvar_cadastro(tab, seq, f) ==
    IF ~f.submitted
    THEN [rows |-> tab, seq |-> seq, msgs |-> {}, exc |-> None, aberta |-> FALSE]
    ELSE IF strip(f.placa) = <<>>
    THEN [rows |-> tab, seq |-> seq, msgs |-> {ErroPlaca}, exc |-> None, aberta |-> FALSE]
    ELSE IF f.falha # "nenhuma"
    THEN [rows |-> tab, seq |-> seq, msgs |-> {}, exc |-> SqlError, aberta |-> TRUE]
    ELSE LET w == InsertOrReplace(tab, seq, Str(strip(f.placa)),
                                  [i \in 1..Len(f.dados) |-> strip(f.dados[i])])
         IN [rows |-> w.rows, seq |-> w.seq, msgs |-> {OkCadastro},
             exc |-> None, aberta |-> FALSE]

(* as the button "Apagar último cadastro", but deleting the row of the lowest
   id (ORDER BY id ASC) *)
apagar_ultimo_menor_id(tab, b) ==
    IF ~b.clicked THEN [rows |-> tab, msgs |-> {}, exc |-> None, aberta |-> FALSE]
    ELSE IF b.falha # "nenhuma"
    THEN [rows |-> tab, msgs |-> {}, exc |-> SqlError, aberta |-> TRUE]
    ELSE IF tab # {}
    THEN LET row == CHOOSE r \in tab : \A x \in tab : r.id <= x.id
         IN [rows |-> {r \in tab : r.id # row.id}, msgs |-> {OkApagado},
             exc |-> None, aberta |-> FALSE]
    ELSE [rows |-> tab, msgs |-> {InfoNadaApagar}, exc |-> None, aberta |-> FALSE]

(* pagina_cadastros, button "Apagar último cadastro" *)
apagar_ultimo(tab, b) ==
    IF ~b.clicked THEN [rows |-> tab, msgs |-> {}, exc |-> None, aberta |-> FALSE]
    ELSE IF b.falha # "nenhuma"
    THEN [rows |-> tab, msgs |-> {}, exc |-> SqlError, aberta |-> TRUE]
    ELSE IF tab # {}
    THEN LET row == CHOOSE r \in tab : \A x \in tab : x.id <= r.id
         IN [rows |-> {r \in tab : r.id # row.id}, msgs |-> {OkApagado},
             exc |-> None, aberta |-> FALSE]
    ELSE [rows |-> tab, msgs |-> {InfoNadaApagar}, exc |-> None, aberta |-> FALSE]

(* pagina_abastecimentos, form "form_abastecimento" *)
salvar_abastecimento(tab, seq, f) ==
    IF ~f.submitted
    THEN [rows |-> tab, seq |-> seq, msgs |-> {}, exc |-> None, aberta |-> FALSE]
    ELSE IF f.placa = None \/ f.placa.v = <<>>
    THEN [rows |-> tab, seq |-> seq, msgs |-> {ErroPlaca}, exc |-> None, aberta |-> FALSE]
    ELSE IF f.falha # "nenhuma"
    THEN [rows |-> tab, seq |-> seq, msgs |-> {}, exc |-> SqlError, aberta |-> TRUE]
    ELSE LET w == Insert(tab, seq, f.placa, normalize_combustivel(f.combustivel))
         IN [rows |-> w.rows, seq |-> w.seq, msgs |-> {OkAbastecimento},
             exc |-> None, aberta |-> FALSE]

ErroEmailPlaca      == "Informe a placa do veiculo."
ErroEmailSupervisor == "Informe o supervisor responsavel."
ErroEmailSetor      == "Informe o setor."
ErroEmailLitros     == "Informe a quantidade de litros (maior que zero)."
ErroEmailPosto      == "Informe o e-mail do posto."
ErroPdf             == "Erro ao gerar PDF"
OkEnviado           == "Requisicao enviada com sucesso ao posto!"
ErroEnvio           == "Falha ao enviar"

(* pagina_email, the chain of validations: the message of the first check
   that fails, or "" when all pass *)
validar_requisicao(f) ==
    IF strip(f.placa) = <<>> THEN ErroEmailPlaca
    ELSE IF strip(f.supervisor) = <<>> THEN ErroEmailSupervisor
    ELSE IF strip(f.setor) = <<>> THEN ErroEmailSetor
    ELSE IF f.litros <= 0 THEN ErroEmailLitros
    ELSE IF strip(f.email_posto) = <<>> THEN ErroEmailPosto
    ELSE ""

NossoEmail == <<"p","@","f">>

(* the dict pagina_email builds from the widgets; the widgets the forms of
   the model leave alone keep their default value *)
Payload(f) ==
    [data          |-> Str(<<"d">>),
     posto         |-> Str(<<>>),
     placa         |-> Str(strip(f.placa)),
     supervisor    |-> Str(strip(f.supervisor)),
     setor         |-> Str(strip(f.setor)),
     motorista     |-> Str(strip(<<>>)),
     litros        |-> FloatV(10 * f.litros),
     combustivel   |-> Str(<<"G","a","s","o","l","i","n","a">>),
     justificativa |-> Str(strip(<<>>)),
     solicitante   |-> Str(NossoEmail),
     km_atual      |-> IntV(0)]

(* pagina_email, form "form_requisicao_pdf": the call of send_email_smtp it
   makes (args, ret), if any, and the messages it shows *)
enviar_requisicao_envia_sem_pdf(f, falha_pdf, falha) ==
    IF ~f.enviar THEN [pdf |-> Pendente, args |-> None, ret |-> Pendente, msgs |-> {}]
    ELSE IF validar_requisicao(f) # ""
    THEN [pdf |-> Pendente, args |-> None, ret |-> Pendente,
          msgs |-> {validar_requisicao(f)}]
    ELSE LET pdf_ == generate_request_pdf(Payload(f), falha_pdf)
             a == [to_address       |-> Str(strip(f.email_posto)),
                   attachment_bytes |-> IF pdf_.tipo = "raise" THEN None ELSE pdf_.bytes,
                   attachment_name  |-> Str(<<"r","e","q","_">> \o strip(f.placa)
                                                \o <<".","p","d","f">>),
                   smtp_config      |-> [user |-> Str(strip(NossoEmail)),
                                         password |-> Str(strip(<<>>)),
                                         use_tls |-> TRUE],
                   falha            |-> falha]
             r == send_email_smtp(a)
         IN [pdf |-> pdf_, args |-> a, ret |-> r,
             msgs |-> (IF pdf_.tipo = "raise" THEN {ErroPdf} ELSE {})
                         \cup (IF r.ok THEN {OkEnviado} ELSE {ErroEnvio})]

enviar_requisicao(f, falha_pdf, falha) ==
    IF ~f.enviar THEN [pdf |-> Pendente, args |-> None, ret |-> Pendente, msgs |-> {}]
    ELSE IF validar_requisicao(f) # ""
    THEN [pdf |-> Pendente, args |-> None, ret |-> Pendente,
          msgs |-> {validar_requisicao(f)}]
    ELSE LET pdf_ == generate_request_pdf(Payload(f), falha_pdf)
         IN IF pdf_.tipo = "raise"
            THEN [pdf |-> pdf_, args |-> None, ret |-> Pendente, msgs |-> {ErroPdf}]
            ELSE LET a == [to_address       |-> Str(strip(f.email_posto)),
                           attachment_bytes |-> pdf_.bytes,
                           attachment_name  |-> Str(<<"r","e","q","_">> \o strip(f.placa)
                                                        \o <<".","p","d","f">>),
                           smtp_config      |-> [user |-> Str(strip(NossoEmail)),
                                                 password |-> Str(strip(<<>>)),
                                                 use_tls |-> TRUE],
                           falha            |-> falha]
                     r == send_email_smtp(a)
                 IN [pdf |-> pdf_, args |-> a, ret |-> r,
                     msgs |-> IF r.ok THEN {OkEnviado} ELSE {ErroEnvio}]

-----------------------------------------------------------------------------
(* One rerun of the script: main picks the page of the sidebar menu, and the
   page runs its blocks from top to bottom *)

Menus == {"Inicio", "Cadastros", "Abastecimentos", "Dashboard", "Relatorios & E-mail"}

PrimeiroBloco(menu) ==
    CASE menu = "Cadastros"           -> "cad_upload"
      [] menu = "Abastecimentos"      -> "ab_upload"
      [] menu = "Relatorios & E-mail" -> "email_form"
      [] OTHER                        -> "idle"

(* What the requisition screen shows while the page runs block p:
   pagina_abastecimentos renders the uploader and the creation form
   "form_abastecimento" on every rerun; it has no list of requisitions, no
   "New" button, no view or edit icon and keeps nothing in session_state *)
Tela(p) ==
    IF p \in {"ab_upload", "ab_form"} THEN "form" ELSE "nenhuma"

StoreInit0 ==
    /\ cadastros = {}
    /\ seq_cad = 0
    /\ abastecimentos = {}
    /\ seq_ab = 0
    /\ pc = "idle"
    /\ entrada = [menu |-> "Inicio"]
    /\ msgs = {}
    /\ ultimo = {}
    /\ excecao = None
    /\ abertas = 0
    /\ schema = {}

(* The script runs from its first line on every rerun: init_db() and
   init_postos_emails() at module level, then main(), whose radio picks the
   page. An exception of the initialisation ends the rerun *)
main ==
    /\ pc = "idle"
    /\ LET db == init_postos_emails(init_db([schema |-> schema, exc |-> None]))
       IN /\ schema' = db.schema
          /\ excecao' = db.exc
          /\ \E menu \in Menus :
                /\ pc' = IF db.exc # None THEN "idle" ELSE PrimeiroBloco(menu)
                /\ entrada' = [menu |-> menu]
    /\ msgs' = {}
    /\ args' = None
    /\ ret' = Pendente
    /\ msg' = Pendente
    /\ smtp' = <<>>
    /\ pdf' = Pendente
    /\ abertas' = 0
    /\ UNCHANGED <<cadastros, seq_cad, abastecimentos, seq_ab, ultimo, normVars>>

(* The end of a block whose outcome is r. An exception that leaves the page
   function ends the rerun, and its traceback keeps the connection of the
   block alive. A connection a returning block did not close is left to the
   finaliser of the interpreter, which may or may not have run (gc) *)
Encerra(r, gc, proximo) ==
    /\ excecao' = r.exc
    /\ abertas' = IF r.aberta /\ (r.exc # None \/ ~gc) THEN abertas + 1 ELSE abertas
    /\ pc' = IF r.exc # None THEN "idle" ELSE proximo

(* history of the last successful write of each Placa *)
UltimoGrava(u, placa, dados) ==
    {w \in u : w[1] # placa} \cup {<<placa, dados>>}

RECURSIVE UltimoLinhas(_, _, _, _)
UltimoLinhas(u, linhas, falha, i) ==
    IF i > Len(linhas) THEN u
    ELSE IF i = falha THEN UltimoLinhas(u, linhas, falha, i + 1)
    ELSE UltimoLinhas(UltimoGrava(u, ToSql(linhas[i].Placa), linhas[i].dados),
                      linhas, falha, i + 1)

CadUpload ==
    /\ pc = "cad_upload"
    /\ \E file \in {None} \cup PlanilhasCad :
          /\ entrada' = [file |-> file]
          /\ IF file = None
             THEN /\ pc' = "cad_form"
                  /\ UNCHANGED <<cadastros, seq_cad, msgs, ultimo, excecao, abertas>>
             ELSE LET r == upload_cadastros(cadastros, seq_cad, file)
                  IN /\ r.seq <= MaxCad
                     /\ cadastros' = r.rows
                     /\ seq_cad' = r.seq
                     /\ msgs' = msgs \cup r.msgs
                     /\ ultimo' = IF OkUploadCad \in r.msgs
                                  THEN UltimoLinhas(ultimo, file.linhas, file.falha, 1)
                                  ELSE ultimo
                     /\ \E gc \in BOOLEAN : Encerra(r, gc, "cad_form")
    /\ UNCHANGED <<abastecimentos, seq_ab, normVars, schema, smtpVars>>

CadForm ==
    /\ pc = "cad_form"
    /\ \E f \in FormsCad :
          LET r == salvar_cadastro(cadastros, seq_cad, f)
          IN /\ r.seq <= MaxCad
             /\ entrada' = f
             /\ cadastros' = r.rows
             /\ seq_cad' = r.seq
             /\ msgs' = msgs \cup r.msgs
             /\ ultimo' = IF OkCadastro \in r.msgs
                          THEN UltimoGrava(ultimo, Str(strip(f.placa)),
                                           [i \in 1..Len(f.dados) |-> strip(f.dados[i])])
                          ELSE ultimo
             /\ Encerra(r, FALSE, "cad_botao")
    /\ UNCHANGED <<abastecimentos, seq_ab, normVars, schema, smtpVars>>

CadBotao ==
    /\ pc = "cad_botao"
    /\ \E b \in Cliques :
          LET r == apagar_ultimo(cadastros, b)
          IN /\ entrada' = b
             /\ cadastros' = r.rows
             /\ msgs' = msgs \cup r.msgs
             /\ Encerra(r, FALSE, "idle")
    /\ UNCHANGED <<seq_cad, abastecimentos, seq_ab, ultimo, normVars, schema, smtpVars>>

AbUpload ==
    /\ pc = "ab_upload"
    /\ \E file \in {None} \cup PlanilhasAb :
          /\ entrada' = [file |-> file]
          /\ IF file = None
             THEN /\ pc' = "ab_form"
                  /\ UNCHANGED <<abastecimentos, seq_ab, msgs, excecao, abertas>>
             ELSE LET r == upload_abastecimentos(abastecimentos, seq_ab, file)
                  IN /\ r.seq <= MaxAb
                     /\ abastecimentos' = r.rows
                     /\ seq_ab' = r.seq
                     /\ msgs' = msgs \cup r.msgs
                     /\ \E gc \in BOOLEAN : Encerra(r, gc, "ab_form")
    /\ UNCHANGED <<cadastros, seq_cad, ultimo, normVars, schema, smtpVars>>

AbForm ==
    /\ pc = "ab_form"
    /\ \E f \in FormsAb(cadastros) :
          LET r == salvar_abastecimento(abastecimentos, seq_ab, f)
          IN /\ r.seq <= MaxAb
             /\ entrada' = f
             /\ abastecimentos' = r.rows
             /\ seq_ab' = r.seq
             /\ msgs' = msgs \cup r.msgs
             /\ Encerra(r, FALSE, "idle")
    /\ UNCHANGED <<cadastros, seq_cad, ultimo, normVars, schema, smtpVars>>

EmailForm ==
    /\ pc = "email_form"
    /\ \E f \in FormsEmail, falha_pdf \in FalhasPdf, falha \in Falhas :
          LET r == enviar_requisicao(f, falha_pdf, falha)
          IN /\ entrada' = f
             /\ pdf' = r.pdf
             /\ args' = r.args
             /\ ret' = r.ret
             /\ msg' = IF r.args = None THEN Pendente ELSE build_msg(r.args)
             /\ smtp' = IF r.args = None THEN <<>> ELSE smtp_calls(r.args)
             /\ msgs' = msgs \cup r.msgs
    /\ pc' = "idle"
    /\ UNCHANGED <<cadastros, seq_cad, abastecimentos, seq_ab, ultimo, normVars, schema,
                   excecao, abertas>>

Init == NormInit0 /\ StoreInit0 /\ SmtpInit0

Next ==
    \/ main
    \/ CadUpload
    \/ CadForm
    \/ CadBotao
    \/ AbUpload
    \/ AbForm
    \/ EmailForm

Spec == Init /\ [][Next]_vars

-----------------------------------------------------------------------------
(* normalize_combustivel on its own *)

InitNorm == val \in Entradas /\ res = Pendente /\ StoreInit0 /\ SmtpInit0

NextNorm == Normalizar \/ NovaEntrada

SpecNorm == InitNorm /\ [][NextNorm]_vars

-----------------------------------------------------------------------------
(* generate_request_pdf on its own, over payloads with and without the
   optional keys *)

Ausente == [t |-> "ausente"]

Com(payload, k, v) == IF v = Ausente THEN payload ELSE (k :> v) @@ payload

PayloadBase ==
    [data          |-> Str(<<"d">>),
     posto         |-> Str(<<>>),
     placa         |-> Str(PlacaA),
     supervisor    |-> Str(<<"s">>),
     setor         |-> Str(<<"t">>),
     motorista     |-> Str(<<"m">>),
     justificativa |-> Str(<<"a", "\n", "b">>),
     solicitante   |-> Str(NossoEmail)]

Payloads ==
    { Com(Com(Com(Com(PayloadBase, "km_atual", k), "litros", l), "combustivel", c),
          "valor_total", vt) :
        k  \in {Ausente, None, IntV(0), IntV(MaxInt)},
        l  \in {Ausente, FloatV(0), FloatV(15)},
        c  \in {Ausente, None, Str(<<>>), Str(<<"G","N","V">>)},
        vt \in {Ausente, FloatV(0), FloatV(125)} }

Gerar ==
    /\ res = Pendente
    /\ \E falha \in FalhasPdf : res' = generate_request_pdf(val, falha)
    /\ UNCHANGED <<val, storeVars, smtpVars>>

NovoPayload ==
    /\ res # Pendente
    /\ val' \in Payloads
    /\ res' = Pendente
    /\ UNCHANGED <<storeVars, smtpVars>>

InitPdf == val \in Payloads /\ res = Pendente /\ StoreInit0 /\ SmtpInit0

NextPdf == Gerar \/ NovoPayload

SpecPdf == InitPdf /\ [][NextPdf]_vars

-----------------------------------------------------------------------------
(* multiselect_select_all on its own: options is the list given, selected
   the list st.multiselect returns, in the order the user picked *)

sentinel == "Selecionar tudo"

(* as multiselect_select_all, but an empty selection is passed on as it is *)
multiselect_select_all_sem_vazio(options, selected) ==
    IF options = <<>> THEN <<>>
    ELSE IF \E i \in DOMAIN selected : selected[i] = sentinel
    THEN options
    ELSE SelectSeq(selected, LAMBDA x : x # sentinel)

multiselect_select_all(options, selected) ==
    IF options = <<>> THEN <<>>
    ELSE IF (\E i \in DOMAIN selected : selected[i] = sentinel) \/ Len(selected) = 0
    THEN options
    ELSE SelectSeq(selected, LAMBDA x : x # sentinel)

MaxOpc == 2

Rotulos == {"a", "b", "c"}

(* the lists over S of at most n items, none twice *)
Listas(S, n) ==
    { l \in UNION {[1..k -> S] : k \in 0..n} :
        \A i, j \in DOMAIN l : l[i] = l[j] => i = j }

Selecoes ==
    { [options |-> <<>>, selected |-> <<>>] }
        \cup UNION { { [options |-> o, selected |-> sel] :
                          sel \in Listas({sentinel} \cup {o[i] : i \in DOMAIN o},
                                         Len(o) + 1) } :
                     o \in Listas(Rotulos, MaxOpc) \ {<<>>} }

Selecionar ==
    /\ res = Pendente
    /\ res' = [tipo |-> "return",
               v |-> multiselect_select_all(val.options, val.selected)]
    /\ UNCHANGED <<val, storeVars, smtpVars>>

NovaSelecao ==
    /\ res # Pendente
    /\ val' \in Selecoes
    /\ res' = Pendente
    /\ UNCHANGED <<storeVars, smtpVars>>

InitMulti == val \in Selecoes /\ res = Pendente /\ StoreInit0 /\ SmtpInit0

NextMulti == Selecionar \/ NovaSelecao

SpecMulti == InitMulti /\ [][NextMulti]_vars

-----------------------------------------------------------------------------
(* to_excel_bytes on its own: engine_order is the tuple given, funcionam the
   engines with which pd.ExcelWriter and to_excel raise nothing *)

xlsxwriter == Str(<<"x","l","s","x","w","r","i","t","e","r">>)
openpyxl   == Str(<<"o","p","e","n","p","y","x","l">>)
odf        == Str(<<"o","d","f">>)

Engines == {xlsxwriter, openpyxl, odf}

(* the for loop from engine number i on; tentados: the engines a writer was
   opened with so far *)
RECURSIVE tenta_engines(_, _, _, _)
tenta_engines(engine_order, funcionam, i, tentados) ==
    IF i > Len(engine_order)
    THEN [tipo |-> "return", bytes |-> None, engine |-> None, tentados |-> tentados]
    ELSE IF engine_order[i] \in funcionam
    THEN [tipo |-> "return", bytes |-> Bytes(engine_order[i].v),
          engine |-> engine_order[i], tentados |-> Append(tentados, engine_order[i])]
    ELSE tenta_engines(engine_order, funcionam, i + 1, Append(tentados, engine_order[i]))

(* as to_excel_bytes, but going through the whole tuple and keeping the last
   engine that worked *)
to_excel_bytes_ultima(engine_order, funcionam) ==
    IF \E i \in DOMAIN engine_order : engine_order[i] \in funcionam
    THEN LET n == CHOOSE i \in DOMAIN engine_order :
                      /\ engine_order[i] \in funcionam
                      /\ \A j \in DOMAIN engine_order :
                             engine_order[j] \in funcionam => j <= i
         IN [tipo |-> "return", bytes |-> Bytes(engine_order[n].v),
             engine |-> engine_order[n], tentados |-> engine_order]
    ELSE [tipo |-> "return", bytes |-> None, engine |-> None,
          tentados |-> engine_order]

to_excel_bytes(engine_order, funcionam) ==
    tenta_engines(engine_order, funcionam, 1, <<>>)

MaxOrdem == 2

Pedidos ==
    [engine_order : UNION {[1..k -> Engines] : k \in 0..MaxOrdem},
     funcionam    : SUBSET Engines]

Exportar ==
    /\ res = Pendente
    /\ res' = to_excel_bytes(val.engine_order, val.funcionam)
    /\ UNCHANGED <<val, storeVars, smtpVars>>

NovoPedido ==
    /\ res # Pendente
    /\ val' \in Pedidos
    /\ res' = Pendente
    /\ UNCHANGED <<storeVars, smtpVars>>

InitExcel == val \in Pedidos /\ res = Pendente /\ StoreInit0 /\ SmtpInit0

NextExcel == Exportar \/ NovoPedido

SpecExcel == InitExcel /\ [][NextExcel]_vars

-----------------------------------------------------------------------------
(* send_email_smtp on its own, over every combination of arguments *)

Configs ==
    { None,
      [user |-> Str(<<"u">>), password |-> Str(<<"p">>), use_tls |-> TRUE],
      [user |-> Str(<<"u">>), password |-> Str(<<>>), use_tls |-> TRUE],
      [user |-> None, password |-> None, use_tls |-> TRUE],
      [user |-> Str(<<"u">>), password |-> Str(<<"p">>), use_tls |-> FALSE] }

Anexos ==
    { None, Str(<<"r",".","p","d","f">>), Str(<<"R",".","X","L","S","X">>),
      Str(<<"r",".","c","s","v">>) }

Chamadas ==
    [to_address : {Str(<<"e">>)}, attachment_bytes : {None, Bytes(<<"x">>)},
     attachment_name : Anexos, smtp_config : Configs, falha : Falhas]

Chamar ==
    /\ ret = Pendente
    /\ ret' = send_email_smtp(args)
    /\ msg' = build_msg(args)
    /\ smtp' = smtp_calls(args)
    /\ UNCHANGED <<args, pdf, normVars, storeVars>>

NovaChamada ==
    /\ ret # Pendente
    /\ args' \in Chamadas
    /\ ret' = Pendente
    /\ msg' = Pendente
    /\ smtp' = <<>>
    /\ UNCHANGED <<pdf, normVars, storeVars>>

InitSmtp ==
    /\ args \in Chamadas
    /\ ret = Pendente
    /\ msg = Pendente
    /\ smtp = <<>>
    /\ pdf = Pendente
    /\ NormInit0
    /\ StoreInit0

NextSmtp == Chamar \/ NovaChamada

SpecSmtp == InitSmtp /\ [][NextSmtp]_vars

-----------------------------------------------------------------------------
(* Properties of normalize_combustivel, checked under SpecNorm *)

lowerAll(s) == [i \in 1..Len(s) |-> lower(s[i])]

Contem(s, sub) ==
    \E i \in 1..(Len(s) - Len(sub) + 1) :
        SubSeq(lowerAll(s), i, i + Len(sub) - 1) = sub

(* the canonical categories in priority order: substring, label *)
Canonicos ==
    << [sub |-> <<"e","t","a","n","o","l">>, rot |-> <<"E","t","a","n","o","l">>],
       [sub |-> <<"g","a","s","o","l","i","n","a">>,
        rot |-> <<"G","a","s","o","l","i","n","a">>],
       [sub |-> <<"d","i","e","s","e","l"," ","s","1","0">>,
        rot |-> <<"D","i","e","s","e","l"," ","S","1","0">>],
       [sub |-> <<"d","i","e","s","e","l"," ","s","5","0","0">>,
        rot |-> <<"D","i","e","s","e","l"," ","S","5","0","0">>],
       [sub |-> <<"a","r","l","a">>, rot |-> <<"A","r","l","a">>] >>

Casa(s) == \E k \in 1..Len(Canonicos) : Contem(s, Canonicos[k].sub)

Rotulo(s) ==
    Canonicos[CHOOSE k \in 1..Len(Canonicos) :
                  /\ Contem(s, Canonicos[k].sub)
                  /\ \A j \in 1..(k - 1) : ~Contem(s, Canonicos[j].sub)].rot

(* a text without its leading and trailing whitespace and with every inner run
   of whitespace replaced by one blank *)
RECURSIVE Colapsa0(_)
Colapsa0(s) ==
    IF s = <<>> THEN <<>>
    ELSE IF isspace(s[1])
         THEN IF Len(s) > 1 /\ ~isspace(s[2])
              THEN <<" ">> \o Colapsa0(Tail(s))
              ELSE Colapsa0(Tail(s))
         ELSE <<s[1]>> \o Colapsa0(Tail(s))

Colapsa(s) ==
    LET c == Colapsa0(s) IN IF c # <<>> /\ c[1] = " " THEN Tail(c) ELSE c

(* the number written by a text of decimal digits with an optional sign *)
RECURSIVE Valor(_)
Valor(s) ==
    IF s = <<>> THEN 0
    ELSE IF s[1] = "-" THEN 0 - Valor(Tail(s))
    ELSE Valor(SubSeq(s, 1, Len(s) - 1)) * 10
             + ((CHOOSE d \in 1..10 : Digitos[d] = s[Len(s)]) - 1)

SoDigitos(s) ==
    /\ s # <<>>
    /\ \A i \in 1..Len(s) : (\E d \in 1..10 : Digitos[d] = s[i]) \/ (i = 1 /\ s[i] = "-")

(* C1 as stated: an input containing one of the five substrings, in any case
   and with any surrounding text, yields the canonical label of the first
   substring in priority order that matches *)
C1_Original ==
    (res # Pendente /\ val.t = "str" /\ Casa(val.v)) => res = Str(Rotulo(val.v))

(* C1 amended: an input that consists of exactly one of the five fuel names,
   in any case, with any leading and trailing whitespace and any whitespace
   runs between its words, yields the canonical label of that name *)
C1_Amended ==
    (res # Pendente /\ val.t = "str") =>
        \A k \in 1..Len(Canonicos) :
            lowerAll(Colapsa(val.v)) = Canonicos[k].sub => res = Str(Canonicos[k].rot)

C1_Witness ==
    /\ val = Str(<<"d","i","e","s","e","l"," "," ","s","1","0">>)
    /\ res = Str(<<"D","i","e","s","e","l"," ","S","1","0">>)

(* C2 as stated: an input matching none of the five substrings comes back
   trimmed and otherwise unchanged *)
C2_Original ==
    (res # Pendente /\ val.t = "str" /\ ~Casa(val.v)) => res = Str(strip(val.v))

(* C2 amended: an input matching none of the five substrings comes back
   without leading and trailing whitespace, with every inner run of whitespace
   replaced by one blank, and with every word capitalised: its first character
   in upper case and the others in lower case. Letter case and inner spacing
   are not kept *)
C2_Amended ==
    (res # Pendente /\ val.t = "str" /\ ~Casa(val.v)) =>
        /\ res.t = "str"
        /\ lowerAll(res.v) = lowerAll(Colapsa(val.v))
        /\ \A i \in 1..Len(res.v) :
              res.v[i] = IF i = 1 \/ res.v[i - 1] = " "
                         THEN upper(res.v[i])
                         ELSE lower(res.v[i])

C2_Witness ==
    /\ val = Str(<<"g","n","v"," "," ","a","d","i","t","i","v","a","d","o">>)
    /\ res = Str(<<"G","n","v"," ","A","d","i","t","i","v","a","d","o">>)

(* C3 as stated: every non-string input yields the empty string *)
C3_Original ==
    (res # Pendente /\ val.t # "str") => res = Str(<<>>)

(* C3 amended: None yields None; a number yields the text of the number (an
   integer its decimal digits, NaN the text "Nan"); a value whose str() raises
   comes back unchanged. No non-string input yields the empty string *)
C3_Amended ==
    (res # Pendente /\ val.t # "str") =>
        /\ res # Str(<<>>)
        /\ val = None => res = None
        /\ val.t = "int" => (res.t = "str" /\ SoDigitos(res.v) /\ Valor(res.v) = val.v)
        /\ val = NaN => res = Str(<<"N","a","n">>)
        /\ val = Obj => res = Obj

C3_Witness ==
    /\ val = IntV(MaxInt)
    /\ res.t = "str"
    /\ Valor(res.v) = MaxInt

-----------------------------------------------------------------------------
(* Properties of the store and of the pages, checked under Spec *)

Placas(tab) == {r.Placa : r \in tab}

(* C4 as stated: once a plate has a row in cadastros, every later state has a
   row for that plate, whatever the user does *)
C4_Original ==
    [][Placas(cadastros) \subseteq Placas(cadastros')]_vars

(* C4 amended: registrations are deleted only by the button "Apagar último
   cadastro": every step other than that block (manual save, bulk import, the
   other pages) keeps a row for every plate that had one, and the block of the
   button removes at most one plate *)
C4_Amended ==
    [][IF pc = "cad_botao"
       THEN Cardinality(Placas(cadastros) \ Placas(cadastros')) <= 1
       ELSE Placas(cadastros) \subseteq Placas(cadastros')]_vars

(* plate A was saved, then written again under a new id, and is still there *)
C4_Witness ==
    /\ seq_cad = 2
    /\ \E r \in cadastros : r.Placa = Str(PlacaA) /\ r.id = 2
    /\ <<Str(PlacaA), D1>> \in ultimo
    /\ pc = "idle"

(* C5: cadastros holds at most one row per plate, and the attributes of that
   row are those of the most recent successful write for the plate *)
C5_UpsertLastWriteWins ==
    /\ \A r1, r2 \in cadastros : r1.Placa = r2.Placa => r1 = r2
    /\ \A r \in cadastros : <<r.Placa, r.dados>> \in ultimo
    /\ \A w1, w2 \in ultimo : w1[1] = w2[1] => w1 = w2

(* plate A was written with D1 and later with D2: one row, holding D2 *)
C5_Witness ==
    /\ cadastros = {[id |-> 2, Placa |-> Str(PlacaA), dados |-> D2]}
    /\ seq_cad = 2

ErrosEmail ==
    {ErroEmailPlaca, ErroEmailSupervisor, ErroEmailSetor, ErroEmailLitros, ErroEmailPosto}

StoreUnchanged ==
    UNCHANGED <<cadastros, seq_cad, abastecimentos, seq_ab>>

(* C7: a form submitted with an empty required field reports an error, leaves
   the store unchanged and makes no call of send_email_smtp *)
C7_ValidationAborts ==
    [][/\ (pc = "cad_form" /\ entrada'.submitted /\ strip(entrada'.placa) = <<>>)
            => (ErroPlaca \in msgs' /\ StoreUnchanged /\ ret' = Pendente)
       /\ (pc = "ab_form" /\ entrada'.submitted /\ entrada'.placa = None)
            => (ErroPlaca \in msgs' /\ StoreUnchanged /\ ret' = Pendente)
       /\ (pc = "email_form" /\ entrada'.enviar
              /\ (\/ strip(entrada'.placa) = <<>>
                  \/ strip(entrada'.supervisor) = <<>>
                  \/ strip(entrada'.setor) = <<>>
                  \/ entrada'.litros <= 0
                  \/ strip(entrada'.email_posto) = <<>>))
            => (msgs' \cap ErrosEmail # {} /\ StoreUnchanged
                    /\ ret' = Pendente /\ args' = None)]_vars

(* the registration form was submitted with a plate of blanks only *)
C7_Witness ==
    /\ pc = "cad_botao"
    /\ entrada.submitted
    /\ entrada.placa = <<" ">>
    /\ ErroPlaca \in msgs
    /\ cadastros # {}

SemPlaca(file) ==
    /\ file # None
    /\ file.tipo = "ok"
    /\ \E i \in 1..Len(file.linhas) : file.linhas[i].Placa = NaN

(* C8: a sheet with a row without plate is rejected with an error, and no row
   of it is written *)
C8_ImportAllOrNothing ==
    [][(pc \in {"cad_upload", "ab_upload"} /\ SemPlaca(entrada'.file))
          => (ErroSemPlaca \in msgs' /\ StoreUnchanged)]_vars

(* a sheet of two rows, the first with a plate and the second without, was
   imported into a table that already held a row *)
C8_Witness ==
    /\ pc = "cad_form"
    /\ SemPlaca(entrada.file)
    /\ Len(entrada.file.linhas) = 2
    /\ entrada.file.linhas[1].Placa # NaN
    /\ ErroSemPlaca \in msgs
    /\ cadastros # {}

(* C9: every row of cadastros and of abastecimentos has a non-null Placa *)
C9_NoNullPlaca ==
    \A r \in cadastros \cup abastecimentos : r.Placa # None /\ r.Placa.t = "str"

(* both tables hold rows, written by an import and by a form *)
C9_Witness ==
    /\ cadastros # {}
    /\ abastecimentos # {}
    /\ OkAbastecimento \in msgs

-----------------------------------------------------------------------------
(* Properties of send_email_smtp, checked under SpecSmtp *)

(* C10: every call returns (True, '') or (False, error text); none raises *)
C10_NeverRaises ==
    ret # Pendente =>
        /\ ret.tipo = "return"
        /\ \/ ret.ok /\ ret.err = ""
           \/ ~ret.ok

(* a call with smtp_config = None and an attachment without a name returned
   the failure pair *)
C10_Witness ==
    /\ ret # Pendente
    /\ args.smtp_config = None
    /\ args.attachment_bytes # None
    /\ args.attachment_name = None
    /\ ret.tipo = "return"
    /\ ~ret.ok

Vezes(seq, x) == Cardinality({i \in DOMAIN seq : seq[i] = x})

(* C11: one call hands the message to the relay at most once; the call that
   raised is the last one made on the SMTP object (no retry, no resend);
   a returned True means send_message was called exactly once and the whole
   plan ran *)
C11_OneAttempt ==
    ret # Pendente =>
        /\ Vezes(smtp, "send") <= 1
        /\ \A i \in DOMAIN smtp : smtp[i] = args.falha => i = Len(smtp)
        /\ \A i, j \in DOMAIN smtp : smtp[i] = smtp[j] => i = j
        /\ (ret.tipo = "return" /\ ret.ok) =>
               /\ Vezes(smtp, "send") = 1
               /\ smtp = smtp_plano(args)
        /\ smtp # smtp_plano(args) => ~(ret.tipo = "return" /\ ret.ok)

(* a call whose send_message raised: it was the last call on the relay and
   the failure pair came back *)
C11_Witness ==
    /\ ret # Pendente
    /\ args.falha = "send"
    /\ smtp # <<>>
    /\ smtp[Len(smtp)] = "send"
    /\ ret.tipo = "return"
    /\ ~ret.ok

(* C18: the attachment's MIME type follows the extension of attachment_name,
   case-insensitively: .xlsx the spreadsheet type, .pdf application/pdf,
   anything else application/octet-stream *)
C18_MimeByExtension ==
    (msg # Pendente /\ msg.anexo # None) =>
        LET nome == lowerAll(msg.anexo.filename.v)
        IN /\ msg.anexo.maintype = "application"
           /\ msg.anexo.subtype =
                 IF endswith(nome, <<".","x","l","s","x">>) THEN MimeXlsx
                 ELSE IF endswith(nome, <<".","p","d","f">>) THEN "pdf"
                 ELSE "octet-stream"

(* C12: in the block of form_requisicao_pdf, when generate_request_pdf raised
   the error is shown, send_email_smtp is not called, the relay is not
   contacted and no table changes; a call of send_email_smtp happens only
   with the bytes a render returned *)
C12_RenderFailureAborts ==
    [][pc = "email_form" =>
         /\ (pdf' # Pendente /\ pdf'.tipo = "raise") =>
                /\ ErroPdf \in msgs'
                /\ args' = None
                /\ ret' = Pendente
                /\ msg' = Pendente
                /\ smtp' = <<>>
                /\ StoreUnchanged
         /\ (args' # None \/ ret' # Pendente \/ smtp' # <<>>) =>
                /\ pdf' # Pendente
                /\ pdf'.tipo = "return"
                /\ args'.attachment_bytes = pdf'.bytes]_vars

(* a valid requisition was submitted and the render raised for want of
   reportlab, with rows already in the store *)
C12_Witness ==
    /\ pc = "idle"
    /\ pdf # Pendente
    /\ pdf.tipo = "raise"
    /\ pdf.exc = "reportlab nao disponivel"
    /\ ErroPdf \in msgs
    /\ ret = Pendente
    /\ cadastros # {}

(* C13: no exception raised by a statement or commit of a store write leaves
   the page function: every write failure is caught by the page *)
C13_WriteFailuresCaught ==
    excecao = None

(* C14: every connection a block opened is closed when the block ends,
   whether its statements succeeded or failed *)
C14_ConnectionsReleased ==
    abertas = 0

Inicializado ==
    \A n \in {"cadastros", "abastecimentos", "postos_emails"} :
        \E t \in schema : t.nome = n

(* C15: a rerun that starts on an initialised database, with any stored
   rows, runs init_db and init_postos_emails without an error and leaves the
   tables, their columns and the rows as they were *)
C15_InitIdempotent ==
    [][(pc = "idle" /\ Inicializado) =>
          /\ schema' = schema
          /\ StoreUnchanged
          /\ excecao' = None]_vars

(* the script ran again on a database that already held a registration and a
   requisition *)
C15_Witness ==
    /\ pc = "email_form"
    /\ Inicializado
    /\ cadastros # {}
    /\ abastecimentos # {}
    /\ excecao = None
    /\ \E t \in schema : t.nome = "cadastros" /\ t.colunas = ColunasCadastros

(* C16: the requisition screen is in one of the states table, form, view,
   edit, and a rerun that opens it from the menu shows it in its initial
   state table *)
C16_FourStateScreen ==
    /\ pc \in {"ab_upload", "ab_form"} =>
           Tela(pc) \in {"table", "form", "view", "edit"}
    /\ pc = "ab_upload" => Tela(pc) = "table"

TemLinha(m, rotulo) == \E i \in DOMAIN m : m[i][1] = rotulo

Presente(payload, k) ==
    /\ k \in DOMAIN payload
    /\ payload[k] \notin {None, Str(<<>>), IntV(0), FloatV(0)}

(* C17: the metadata table has the row of the odometer, of the liters, of the
   cost and of the fuel exactly when the payload value is neither None nor
   empty nor zero *)
C17_ConditionalRows ==
    (res # Pendente /\ res.tipo = "return") =>
        LET m == res.bytes.v.meta
        IN /\ TemLinha(m, "Quilometragem atual:") <=> Presente(val, "km_atual")
           /\ TemLinha(m, "Quantidade (L):") <=> Presente(val, "litros")
           /\ TemLinha(m, "Combustivel:") <=> Presente(val, "combustivel")
           /\ TemLinha(m, "Valor total:") <=> Presente(val, "valor_total")

Tem(l, x) == \E i \in DOMAIN l : l[i] = x

(* C19: with the sentinel selected, or nothing selected, the result is the
   whole option list; otherwise it is the selection, which holds no
   sentinel; an empty option list gives an empty result *)
C19_SelectAll ==
    res # Pendente =>
        /\ (Tem(val.selected, sentinel) \/ val.selected = <<>>) => res.v = val.options
        /\ (~Tem(val.selected, sentinel) /\ val.selected # <<>>) =>
               /\ res.v = val.selected
               /\ ~Tem(res.v, sentinel)
        /\ val.options = <<>> => res.v = <<>>

(* nothing was selected out of two options, and both came back *)
C19_Witness ==
    /\ res # Pendente
    /\ Len(val.options) = 2
    /\ val.selected = <<>>
    /\ res.v = val.options

(* C20: the call returns, never raises; it returns the bytes and the name of
   the first engine of engine_order that works, having tried the engines
   before it and none after it; it returns (None, None) exactly when no
   engine of engine_order works, having tried them all in order *)
C20_FirstWorkingEngine ==
    res # Pendente =>
        LET o == val.engine_order
            F == val.funcionam
            antes(n) == \A j \in 1..(n - 1) : o[j] \notin F
        IN /\ res.tipo = "return"
           /\ \A n \in DOMAIN o :
                 (o[n] \in F /\ antes(n)) =>
                     /\ res.engine = o[n]
                     /\ res.bytes = Bytes(o[n].v)
                     /\ res.tentados = SubSeq(o, 1, n)
           /\ (res.bytes = None /\ res.engine = None)
                 <=> (\A i \in DOMAIN o : o[i] \notin F)
           /\ (res.bytes = None) <=> (res.engine = None)
           /\ (\A i \in DOMAIN o : o[i] \notin F) => res.tentados = o

(* the first engine of the tuple failed and the second one, which works,
   was used *)
C20_Witness ==
    /\ res # Pendente
    /\ Len(val.engine_order) = 2
    /\ val.engine_order[1] \notin val.funcionam
    /\ val.engine_order[2] \in val.funcionam
    /\ res.engine = val.engine_order[2]
    /\ res.tentados = val.engine_order

(* C21: a click on "Apagar último cadastro" whose statements run removes the
   row of the highest id of cadastros and no other row, and changes nothing
   when the table is empty; every row a step writes takes an id above every
   id of the table, so the row of the highest id is the registration written
   last, whether it was inserted or replaced *)
C21_DeleteLast ==
    [][/\ (pc = "cad_botao" /\ entrada'.clicked /\ excecao' = None) =>
             IF cadastros = {}
             THEN cadastros' = {} /\ InfoNadaApagar \in msgs'
             ELSE \E r \in cadastros :
                     /\ \A x \in cadastros : x.id <= r.id
                     /\ cadastros' = cadastros \ {r}
                     /\ Cardinality(cadastros') = Cardinality(cadastros) - 1
                     /\ OkApagado \in msgs'
       /\ (pc = "cad_botao" /\ ~entrada'.clicked) => cadastros' = cadastros
       /\ \A n \in cadastros' \ cadastros :
             /\ \A x \in cadastros : x.id < n.id
             /\ n.id <= seq_cad'
       /\ seq_cad <= seq_cad']_vars

(* plate A was registered, then plate B, then plate A saved again: the click
   removed the row of A, written last, and left the row of B, the plate
   created last *)
C21_Witness ==
    /\ pc = "idle"
    /\ excecao = None
    /\ OkApagado \in msgs
    /\ seq_cad = 3
    /\ cadastros = {[id |-> 2, Placa |-> Str(PlacaB), dados |-> D1]}
    /\ <<Str(PlacaA), D2>> \in ultimo

Posicao(seq, x) == CHOOSE i \in DOMAIN seq : seq[i] = x

(* C22: the calls on the relay follow the order connect, starttls (with
   use_tls), login (with user and password), send, quit; the message is not
   sent before starttls when TLS is on; and every call that opened a
   connection ends it with quit, also when starttls, login or send raised *)
C22_OrderedAndClosed ==
    ret # Pendente =>
        LET plano == smtp_plano(args)
            use_tls == IF args.smtp_config # None THEN args.smtp_config.use_tls ELSE TRUE
            abriu == smtp # <<>> /\ args.falha # "connect"
        IN /\ Len(smtp) <= Len(plano)
           /\ smtp = SubSeq(plano, 1, Len(smtp))
           /\ (use_tls /\ Vezes(smtp, "send") > 0) =>
                  /\ Vezes(smtp, "starttls") = 1
                  /\ Posicao(smtp, "starttls") < Posicao(smtp, "send")
           /\ abriu => smtp[Len(smtp)] = "quit"

====
